---- MODULE Spec2Model ----
(***************************************************************************)
(* A model of the Kaiterra REST API client (kaiterra_client/client.py):    *)
(* sensor id validation, construction of the /v1/batch payload, the        *)
(* normalisation of the batch reply and the life cycle of the HTTP session.*)
(*                                                                         *)
(* Strings the code inspects character by character (sensor ids) are       *)
(* sequences of one-character strings.  Python dicts are functions from    *)
(* keys to values, Python lists are sequences.                             *)
(***************************************************************************)
EXTENDS Integers, Sequences, FiniteSets, TLC

VARIABLES
    ctor,      \* the arguments the caller passes to KaiterraAPIClient(...)
    client,    \* the fields __init__ assigns (status, _base_url, _api_key, ...)
    session,   \* self._session: "none" | "open" | "closed"
    scope,     \* the caller's position around a 'with client:' block
    exc,       \* the exception that reached the caller at the last operation
    sensor_ids,\* the argument of get_latest_sensor_readings
    reply,     \* what the HTTP executor does with the batch POST
    call,      \* the last get_latest_sensor_readings call: request issued, outcome
    disposed,  \* close() has run, called directly or by __exit__
    sid,       \* the argument of _is_valid_sensor_id (validator on its own)
    valid      \* its outcome: [called |-> FALSE], or the value returned

vars == <<ctor, client, session, scope, exc, sensor_ids, reply, call, disposed, sid, valid>>

(***************************************************************************)
(* Bounds of the model.                                                    *)
(***************************************************************************)
MaxLead == 2      \* leading '/' characters of a generated sensor id
MaxDelta == 1     \* by how much one hex group of a generated id is too short/long
MaxIds == 2       \* length of the enumerated sensor_ids lists
MaxResp == 2      \* length of the enumerated arrays of sub-responses
MaxUnits == 2     \* length of the preferred_units lists
MaxParams == 2    \* parameter entries in a 'latest' field

(***************************************************************************)
(* Characters and words.                                                   *)
(***************************************************************************)
HexDigits == {"0", "1", "2", "3", "4", "5", "6", "7", "8", "9",
              "a", "b", "c", "d", "e", "f"}

laseregg == <<"l", "a", "s", "e", "r", "e", "g", "g">>
sensedge == <<"s", "e", "n", "s", "e", "d", "g", "e">>
thing == <<"t", "h", "i", "n", "g">>
LaserEgg == <<"L", "a", "s", "e", "r", "E", "g", "g">>

\* str.lower() on one character
LowerChar(c) ==
    CASE c = "A" -> "a" [] c = "B" -> "b" [] c = "C" -> "c" [] c = "D" -> "d"
      [] c = "E" -> "e" [] c = "F" -> "f" [] c = "G" -> "g" [] c = "H" -> "h"
      [] c = "I" -> "i" [] c = "J" -> "j" [] c = "K" -> "k" [] c = "L" -> "l"
      [] c = "M" -> "m" [] c = "N" -> "n" [] c = "O" -> "o" [] c = "P" -> "p"
      [] c = "Q" -> "q" [] c = "R" -> "r" [] c = "S" -> "s" [] c = "T" -> "t"
      [] c = "U" -> "u" [] c = "V" -> "v" [] c = "W" -> "w" [] c = "X" -> "x"
      [] c = "Y" -> "y" [] c = "Z" -> "z" [] OTHER -> c

\* str.lower()
Lower(s) == [i \in 1..Len(s) |-> LowerChar(s[i])]

(***************************************************************************)
(* The regular expression of _is_valid_sensor_id, matched as re.match      *)
(* matches it: anchored at the start of the string, not at its end.  Each  *)
(* piece maps the set of positions a match may have reached to the set of  *)
(* positions it may reach next, which is exactly backtracking's result.    *)
(***************************************************************************)
\* a literal
Lit(s, P, lit) ==
    {p + Len(lit) : p \in {q \in P : /\ q + Len(lit) - 1 <= Len(s)
                                     /\ \A i \in 1..Len(lit) : s[q + i - 1] = lit[i]}}

\* x?
Opt(s, P, lit) == P \cup Lit(s, P, lit)

\* [0-9a-f]{n}
Hex(s, P, n) ==
    {p + n : p \in {q \in P : /\ q + n - 1 <= Len(s)
                              /\ \A i \in 0..(n - 1) : s[q + i] \in HexDigits}}

\* (lasereggs?|sensedges?)
DeviceType(s, P) ==
    Opt(s, Lit(s, P, laseregg), <<"s">>) \cup Opt(s, Lit(s, P, sensedge), <<"s">>)

\* ([0-9a-f]{32}|[0-9a-f]{8}-?[0-9a-f]{4}-?[0-9a-f]{4}-?[0-9a-f]{4}-?[0-9a-f]{12})
DeviceId(s, P) ==
    LET g1 == Opt(s, Hex(s, P, 8), <<"-">>)
        g2 == Opt(s, Hex(s, g1, 4), <<"-">>)
        g3 == Opt(s, Hex(s, g2, 4), <<"-">>)
        g4 == Opt(s, Hex(s, g3, 4), <<"-">>)
    IN  Hex(s, P, 32) \cup Hex(s, g4, 12)

\* re.match(r'/?(lasereggs?|sensedges?)/(...)', s): the positions a match ends at
ReMatch(s) == DeviceId(s, Lit(s, DeviceType(s, Opt(s, {1}, <<"/">>)), <<"/">>))

\* KaiterraAPIClient._is_valid_sensor_id
is_valid_sensor_id(id) == ReMatch(Lower(id)) # {}

(***************************************************************************)
(* Sensor ids given to the validator: a device type, a device id made of   *)
(* hex groups, hyphens at some of the gaps between groups, leading         *)
(* slashes and a tail.                                                     *)
(***************************************************************************)
Fill(c, n) == [i \in 1..n |-> c]

Canonical == <<8, 4, 4, 4, 12>>

\* the canonical grouping, with one group made shorter or longer
Shapes ==
    {[Canonical EXCEPT ![g] = Canonical[g] + d] :
        g \in 1..5, d \in (0 - MaxDelta)..MaxDelta}
    \cup {<<8, 4, 2, 2, 4, 12>>}

RECURSIVE Groups(_, _, _, _)
\* groups k..Len(shape) of the device id, a hyphen after group j when j \in hy
Groups(shape, hy, c, k) ==
    IF k > Len(shape) THEN <<>>
    ELSE Fill(c, shape[k])
         \o (IF k \in hy /\ k < Len(shape) THEN <<"-">> ELSE <<>>)
         \o Groups(shape, hy, c, k + 1)

TypeWords == {laseregg, laseregg \o <<"s">>, sensedge, sensedge \o <<"s">>,
              thing, LaserEgg \o <<"s">>, laseregg \o <<"s", "s">>}

MkId(lead, word, sep, shape, hy, c, tail) ==
    Fill("/", lead) \o word \o sep \o Groups(shape, hy, c, 1) \o tail

ValidatorInputs ==
    {MkId(lead, word, sep, shape, hy, c, tail) :
        lead \in 0..MaxLead, word \in TypeWords, sep \in {<<"/">>, <<>>},
        shape \in Shapes, hy \in SUBSET (1..4), c \in {"0", "E", "g"},
        tail \in {<<>>, <<"/", "x">>}}
    \cup {thing}

(***************************************************************************)
(* Python values.  None and optional values are wrapped so that a value    *)
(* and its absence can be compared.                                        *)
(***************************************************************************)
None == [none |-> TRUE]
Some(v) == [none |-> FALSE, v |-> v]

EmptyDict == <<>>

\* dict.get(k, None)
Get(d, k) == IF k \in DOMAIN d THEN Some(d[k]) ELSE None

\* 'not x' for x None or a list
Falsy(x) == x.none \/ x.v = <<>>

\* d[k] = v
Put(d, k, v) == [x \in DOMAIN d \cup {k} |-> IF x = k THEN v ELSE d[x]]

(***************************************************************************)
(* class Units: the members in definition order, with their values.        *)
(***************************************************************************)
UnitsMembers ==
    << [name |-> "Unknown", value |-> "?"],
       [name |-> "Count", value |-> "x"],
       [name |-> "Percent", value |-> "%"],
       [name |-> "DegreesCelsius", value |-> "C"],
       [name |-> "DegreesFahrenheit", value |-> "F"],
       [name |-> "MilligramsPerCubicMeter", value |-> "mg/m³"],
       [name |-> "MicrogramsPerCubicMeter", value |-> "µg/m³"],
       [name |-> "PartsPerMillion", value |-> "ppm"],
       [name |-> "PartsPerBillion", value |-> "ppb"] >>

Units == {UnitsMembers[i].name : i \in DOMAIN UnitsMembers}

\* u.value
UnitsValue(u) ==
    UnitsMembers[CHOOSE i \in DOMAIN UnitsMembers : UnitsMembers[i].name = u].value

\* Units.from_str: the first member whose value is s, ValueError when none is
from_str(s) ==
    LET hits == {i \in DOMAIN UnitsMembers : UnitsMembers[i].value = s}
    IN  IF hits = {} THEN [raised |-> TRUE, exc |-> "ValueError"]
        ELSE [raised |-> FALSE,
              v |-> UnitsMembers[CHOOSE i \in hits : \A j \in hits : i <= j].name]

\* class AQIStandard: the values of its members
AQIStandard == {"us", "cn", "in"}

(***************************************************************************)
(* dateutil.parse_rfc3339.  A timestamp text is a sequence of tokens: a    *)
(* date, "T", a time of day, then "Z", or ".", a fraction and "Z".         *)
(***************************************************************************)
Dates == {"2019-07-03"}
Times == {"09:48:33", "09:48:34"}

\* %f: one to six digits, padded with zeros on the right
Fractions == [k \in {"0", "5", "500000"} |->
                 CASE k = "0" -> 0 [] k = "5" -> 500000 [] k = "500000" -> 500000]

\* datetime.strptime(ts, "%Y-%m-%dT%H:%M:%SZ")
MatchesSeconds(ts) ==
    /\ Len(ts) = 4
    /\ ts[1] \in Dates /\ ts[2] = "T" /\ ts[3] \in Times /\ ts[4] = "Z"

\* datetime.strptime(ts, "%Y-%m-%dT%H:%M:%S.%fZ")
MatchesFraction(ts) ==
    /\ Len(ts) = 6
    /\ ts[1] \in Dates /\ ts[2] = "T" /\ ts[3] \in Times /\ ts[4] = "."
    /\ ts[5] \in DOMAIN Fractions /\ ts[6] = "Z"

parse_rfc3339(ts) ==
    IF MatchesSeconds(ts)
    THEN [raised |-> FALSE,
          v |-> [date |-> ts[1], time |-> ts[3], microsecond |-> 0, tzinfo |-> "utc"]]
    ELSE IF MatchesFraction(ts)
    THEN [raised |-> FALSE,
          v |-> [date |-> ts[1], time |-> ts[3], microsecond |-> Fractions[ts[5]],
                 tzinfo |-> "utc"]]
    ELSE [raised |-> TRUE, exc |-> "ValueError"]

(***************************************************************************)
(* KaiterraAPIClient.__init__.                                             *)
(***************************************************************************)
RECURSIVE rstrip(_, _)
\* str.rstrip(c) on a sequence of tokens
rstrip(s, c) ==
    IF s # <<>> /\ s[Len(s)] = c THEN rstrip(SubSeq(s, 1, Len(s) - 1), c) ELSE s

\* the object __init__ leaves behind: the fields, or the exception it raised
init(args) ==
    LET units == IF args.preferred_units.none THEN <<>> ELSE args.preferred_units.v
    IN  IF args.api_key.none /\ args.hmac_secret.none
        THEN [status |-> "failed", exc |-> "ValueError"]
        ELSE IF ~args.api_key.none /\ ~args.hmac_secret.none
        THEN [status |-> "failed", exc |-> "ValueError"]
        ELSE [status |-> "constructed",
              base_url |-> rstrip(args.base_url, "/"),
              api_key |-> args.api_key,
              hmac_secret |-> args.hmac_secret,
              preferred_units |-> units]

(***************************************************************************)
(* get_latest_sensor_readings: the batch payload.  A URL is a sequence of  *)
(* tokens: the characters of the sensor id, "?", then key, "=", value      *)
(* triples separated by "&".                                               *)
(***************************************************************************)
MaxBatch == 100

\* a length check that lets one id too many through
TooLongOffByOne(ids) == Len(ids) > MaxBatch + 1

\* len(sensor_ids) > 100
TooLong(ids) == Len(ids) > MaxBatch

RECURSIVE Join(_, _)
\* sep.join(parts)
Join(parts, sep) ==
    IF parts = <<>> THEN <<>>
    ELSE IF Len(parts) = 1 THEN parts[1]
    ELSE parts[1] \o <<sep>> \o Join(Tail(parts), sep)

\* the units appended in reverse
get_params_reversed(c) ==
    << <<"format", "=", "series_major">> >>
    \o [i \in 1..Len(c.preferred_units) |->
            <<"units", "=",
              UnitsValue(c.preferred_units[Len(c.preferred_units) + 1 - i])>>]

\* get_params = ['format=series_major'] + ['units=' + u.value for u in units]
get_params(c) ==
    << <<"format", "=", "series_major">> >>
    \o [i \in 1..Len(c.preferred_units) |->
            <<"units", "=", UnitsValue(c.preferred_units[i])>>]

\* one sub-request of the batch
SubRequest(c, id) ==
    [method |-> "GET", relative_url |-> id \o <<"?">> \o Join(get_params(c), "&")]

\* a validation loop that looks at the first id only
FirstInvalidHeadOnly(ids) ==
    IF ids # <<>> /\ ~is_valid_sensor_id(ids[1]) THEN 1 ELSE 0

\* the index of the first id the validator rejects, 0 when there is none
FirstInvalid(ids) ==
    LET bad == {i \in 1..Len(ids) : ~is_valid_sensor_id(ids[i])}
    IN  IF bad = {} THEN 0 ELSE CHOOSE i \in bad : \A j \in bad : i <= j

\* requests, as the loop over sensor_ids leaves it when no id is rejected
BuildRequests(c, ids) == [i \in 1..Len(ids) |-> SubRequest(c, ids[i])]

RECURSIVE lstrip(_, _)
\* str.lstrip(c)
lstrip(s, c) == IF s # <<>> /\ s[1] = c THEN lstrip(Tail(s), c) ELSE s

\* _do_request up to self._session.request(...): the request handed to the session
do_request(c, method, relative_url, headers, json) ==
    [method |-> method,
     url |-> c.base_url \o <<"/">> \o lstrip(relative_url, "/"),
     params |-> IF c.api_key.none THEN EmptyDict ELSE [key |-> c.api_key.v],
     headers |-> headers,
     json |-> json]

(***************************************************************************)
(* _parse_series_major_single_points.                                      *)
(***************************************************************************)
\* json.loads(response['body']): KeyError without a body, ValueError for bad JSON
LoadBody(d) ==
    IF "body" \notin DOMAIN d THEN [raised |-> TRUE, exc |-> "KeyError"]
    ELSE IF d["body"].text = "invalid" THEN [raised |-> TRUE, exc |-> "ValueError"]
    ELSE [raised |-> FALSE, v |-> d["body"].object]

\* a reading built from the last point instead of the first
NewPtLastPoint(param, dt, unit) ==
    LET last == param.points[Len(param.points)]
        base == [units |-> unit,
                 points |-> <<[k \in DOMAIN last |-> IF k = "ts" THEN dt ELSE last[k]]>>]
    IN  IF "source" \in DOMAIN param
        THEN [k \in DOMAIN base \cup {"source"} |->
                 IF k = "source" THEN param.source ELSE base[k]]
        ELSE base

\* point with point['ts'] replaced by the parsed timestamp, other keys kept
WithTs(point, dt) == [k \in DOMAIN point |-> IF k = "ts" THEN dt ELSE point[k]]

\* new_pt for one parameter entry that has points and parses
NewPt(param, dt, unit) ==
    LET base == [units |-> unit, points |-> <<WithTs(param.points[1], dt)>>]
    IN  IF "source" \in DOMAIN param THEN Put(base, "source", param.source) ELSE base

RECURSIVE ParseParamsDropBad(_, _, _)
\* a loop that leaves out an entry whose timestamp or units it cannot parse
ParseParamsDropBad(params, k, parsed) ==
    IF k > Len(params) THEN [raised |-> FALSE, kind |-> "dict", d |-> parsed]
    ELSE IF Len(params[k].points) = 0 THEN ParseParamsDropBad(params, k + 1, parsed)
    ELSE LET dt == parse_rfc3339(params[k].points[1].ts)
             unit == from_str(params[k].units)
         IN  IF dt.raised \/ unit.raised THEN ParseParamsDropBad(params, k + 1, parsed)
             ELSE ParseParamsDropBad(params, k + 1,
                      Put(parsed, params[k].param, NewPt(params[k], dt.v, unit.v)))

RECURSIVE ParseParams(_, _, _)
\* the loop 'for param in params' from entry k on, parsed being the dict so far
ParseParams(params, k, parsed) ==
    IF k > Len(params) THEN [raised |-> FALSE, kind |-> "dict", d |-> parsed]
    ELSE IF Len(params[k].points) = 0 THEN ParseParams(params, k + 1, parsed)
    ELSE LET dt == parse_rfc3339(params[k].points[1].ts)
             unit == from_str(params[k].units)
         IN  IF dt.raised THEN [raised |-> TRUE, exc |-> dt.exc]
             ELSE IF unit.raised THEN [raised |-> TRUE, exc |-> unit.exc]
             ELSE ParseParams(params, k + 1,
                              Put(parsed, params[k].param, NewPt(params[k], dt.v, unit.v)))

\* response.get('code', 0)
Code(d) == IF "code" \in DOMAIN d THEN d["code"] ELSE 0

\* a range check that lets status 400 through
FailedStatusOffByOne(d) == Code(d) < 200 \/ Code(d) > 400

\* response.get('code', 0) < 200 or response.get('code', 0) >= 400
FailedStatus(d) == Code(d) < 200 \/ Code(d) >= 400

\* a fall-back taken only when 'latest' is missing, not when it is empty
ChosenFieldMissingOnly(body) ==
    IF "latest" \in DOMAIN body THEN Some(body["latest"])
    ELSE IF ~Falsy(Get(body, "info.aqi")) THEN Get(body, "info.aqi") ELSE None

\* the field of the body the readings are taken from, None when there is none
ChosenField(body) ==
    LET latest == Get(body, "latest")
    IN  IF ~Falsy(latest) THEN latest
        ELSE LET aqi == Get(body, "info.aqi")
             IN  IF ~Falsy(aqi) THEN aqi ELSE None

parse_series_major_single_points(response) ==
    IF ~response.mapping THEN [raised |-> FALSE, kind |-> "None"]
    ELSE IF FailedStatus(response.d)
    THEN [raised |-> FALSE, kind |-> "None"]
    ELSE LET body == LoadBody(response.d)
         IN  IF body.raised THEN [raised |-> TRUE, exc |-> body.exc]
             ELSE LET params == ChosenField(body.v)
                  IN  IF params.none THEN [raised |-> FALSE, kind |-> "None"]
                      ELSE ParseParams(params.v, 1, EmptyDict)

\* [self._parse_series_major_single_points(x) for x in r]
ParseAll(r) ==
    LET each == [i \in 1..Len(r) |-> parse_series_major_single_points(r[i])]
        bad == {i \in 1..Len(r) : each[i].raised}
    IN  IF bad = {}
        THEN [raised |-> FALSE,
              v |-> [i \in 1..Len(r) |->
                        IF each[i].kind = "None" THEN None ELSE Some(each[i].d)]]
        ELSE [raised |-> TRUE, exc |-> each[CHOOSE i \in bad : \A j \in bad : i <= j].exc]

(***************************************************************************)
(* get_latest_sensor_readings as a whole: what the call does with the      *)
(* client c, the argument ids and the HTTP executor's reply rep.           *)
(***************************************************************************)
Raised(e) == [status |-> "raised", exc |-> e, sent |-> FALSE]

BatchRequest(c, ids) ==
    do_request(c, "POST", <<"/", "v1", "/", "batch">>,
               [x \in {"Content-Type"} |-> "application/json"],
               BuildRequests(c, ids))

get_latest_sensor_readings(c, ids, rep) ==
    IF ids.type = "str" THEN Raised("ValueError")
    ELSE IF TooLong(ids.v) THEN Raised("ValueError")
    ELSE IF FirstInvalid(ids.v) # 0
    THEN [status |-> "raised", exc |-> "ValueError", sent |-> FALSE,
          offender |-> ids.v[FirstInvalid(ids.v)]]
    ELSE LET req == BatchRequest(c, ids.v)
         IN  IF rep.kind = "error"
             THEN [status |-> "raised", exc |-> rep.exc, sent |-> TRUE, request |-> req]
             ELSE LET res == ParseAll(rep.json)
                  IN  IF res.raised
                      THEN [status |-> "raised", exc |-> res.exc, sent |-> TRUE,
                            request |-> req]
                      ELSE [status |-> "returned", exc |-> "none", sent |-> TRUE,
                            request |-> req, result |-> res.v]

(***************************************************************************)
(* Inputs: constructor arguments, sensor id lists, replies of the server.  *)
(***************************************************************************)
\* all sequences over S of length 0..n
RECURSIVE SeqsUpTo(_, _)
SeqsUpTo(S, n) ==
    IF n = 0 THEN {<<>>}
    ELSE LET shorter == SeqsUpTo(S, n - 1)
         IN  shorter \cup {Append(q, x) : q \in shorter, x \in S}

DefaultUrl == <<"https://api.kaiterra.cn">>

UnitLists == {None} \cup {Some(q) : q \in SeqsUpTo({"DegreesCelsius", "DegreesFahrenheit"}, MaxUnits)}

CtorArgs(urls, keys, secrets) ==
    [base_url : urls, api_key : keys, hmac_secret : secrets,
     aqi_standard : {None} \cup {Some(a) : a \in {"us", "cn"}},
     preferred_units : UnitLists]

AllCtorArgs ==
    CtorArgs({DefaultUrl, DefaultUrl \o <<"/">>},
             {None, Some("abc123")}, {None, Some("s3cret")})

\* arguments __init__ accepts
GoodCtorArgs ==
    {a \in [base_url : {DefaultUrl}, api_key : {None, Some("abc123")},
            hmac_secret : {None, Some("s3cret")},
            aqi_standard : {None, Some("us")}, preferred_units : UnitLists] :
        init(a).status = "constructed"}

\* the client of the unit tests' setUp
TestCtorArgs ==
    [base_url |-> DefaultUrl, api_key |-> Some("abc123"), hmac_secret |-> None,
     aqi_standard |-> Some("us"), preferred_units |-> Some(<<"DegreesCelsius">>)]

LaserEggId == MkId(1, laseregg \o <<"s">>, <<"/">>, Canonical, 1..4, "0", <<>>)
SensedgeId == MkId(0, sensedge, <<"/">>, Canonical, {}, "E", <<>>)
MalformedId == MkId(1, laseregg \o <<"s">>, <<"/">>, <<7, 4, 4, 4, 12>>, 1..4, "0", <<>>)

List(q) == [type |-> "list", v |-> q]
Str(q) == [type |-> "str", v |-> q]

\* short lists with valid and malformed ids at every position, a bare string
IdArguments ==
    {List(q) : q \in SeqsUpTo({LaserEggId, MalformedId}, MaxIds)}
    \cup {List(<<SensedgeId>>), List(<<LaserEggId, SensedgeId>>)}
    \cup {Str(LaserEggId), Str(MalformedId)}

\* lists at the limit and over it
LongIdArguments ==
    {List(Fill(id, n)) : id \in {LaserEggId, MalformedId}, n \in {MaxBatch, MaxBatch + 1}}
    \cup {List(Append(Fill(LaserEggId, MaxBatch - 1), MalformedId))}

TsSeconds == <<"2019-07-03", "T", "09:48:33", "Z">>
TsFraction == <<"2019-07-03", "T", "09:48:33", ".", "5", "Z">>
TsLater == <<"2019-07-03", "T", "09:48:34", ".", "500000", "Z">>
TsNoZone == <<"2019-07-03", "T", "09:48:33">>

\* parameter entries as the server sends them
EntryPm25 ==
    [param |-> "rpm25c", units |-> "µg/m³", span |-> 60,
     points |-> << [ts |-> TsSeconds, value |-> 173, aqi |-> 223] >>]
EntryHumid ==
    [param |-> "rhumid", source |-> "km102", units |-> "%", span |-> 60,
     points |-> << [ts |-> TsFraction, value |-> 67],
                   [ts |-> TsLater, value |-> 68, aqi |-> 1] >>]
EntryNoPoints == [param |-> "rtemp", units |-> "C", span |-> 60, points |-> <<>>]
EntryNoPointsOddUnits ==
    [param |-> "rtemp", units |-> "K", span |-> 60, points |-> <<>>]
EntryPm25Again ==
    [param |-> "rpm25c", source |-> "km100", units |-> "ppm", span |-> 60,
     points |-> << [ts |-> TsLater, value |-> 174] >>]
EntryBadTs ==
    [param |-> "rco2", units |-> "ppm", span |-> 60,
     points |-> << [ts |-> TsNoZone, value |-> 1673, aqi |-> 117] >>]
EntryBadUnits ==
    [param |-> "rtvoc", units |-> "K", span |-> 60,
     points |-> << [ts |-> TsSeconds, value |-> 425] >>]
EntryAqi ==
    [param |-> "aqi", units |-> "x", span |-> 60,
     points |-> << [ts |-> TsSeconds, value |-> 80] >>]

Entries == {EntryPm25, EntryHumid, EntryNoPoints, EntryNoPointsOddUnits,
            EntryPm25Again, EntryBadTs, EntryBadUnits}

JsonText(obj) == [text |-> "json", object |-> obj]
InvalidText == [text |-> "invalid"]

\* decoded bodies: 'latest' absent or a list, 'info.aqi' absent, empty or one entry
Bodies ==
    LET ids == [x \in {"id"} |-> "00000000-0001-0001-0000-00007e57c0de"]
        withLatest == {ids} \cup {Put(ids, "latest", q) : q \in SeqsUpTo(Entries, MaxParams)}
    IN  withLatest \cup {Put(b, "info.aqi", q) : b \in withLatest, q \in {<<>>, <<EntryAqi>>}}

Codes == {199, 200, 399, 400, 404}

NotAMapping == [mapping |-> FALSE]
Mapping(d) == [mapping |-> TRUE, d |-> d]

NotFound == Mapping([code |-> 404, body |-> InvalidText])
OkPm25 == Mapping([code |-> 200, body |-> JsonText([latest |-> <<EntryPm25>>])])
OkHumid == Mapping([code |-> 200, body |-> JsonText([latest |-> <<EntryHumid, EntryNoPoints>>])])

\* every status code with every body, and mappings that lack one of the two
SubResponses ==
    {Mapping([code |-> c, body |-> t]) :
        c \in Codes, t \in {InvalidText} \cup {JsonText(b) : b \in Bodies}}
    \cup {Mapping([body |-> JsonText([latest |-> <<EntryPm25>>])]),
          Mapping([code |-> 200]), Mapping([code |-> 404]), NotAMapping}

FewSubResponses ==
    {NotFound, OkPm25, OkHumid, NotAMapping,
     Mapping([code |-> 200, body |-> InvalidText]),
     Mapping([code |-> 200, body |-> JsonText([latest |-> <<EntryBadTs>>])]),
     Mapping([code |-> 399, body |-> JsonText([latest |-> <<>>])])}

Json(r) == [kind |-> "json", json |-> r]
TransportError == [kind |-> "error", exc |-> "HTTPError"]

\* replies to a batch: arrays of any length, whatever was asked
BatchReplies ==
    {Json(r) : r \in SeqsUpTo({NotFound, OkPm25}, MaxResp)} \cup {TransportError}

LongReplies == {Json(Fill(OkPm25, MaxBatch)), Json(<<OkPm25>>), TransportError}

\* replies for the normaliser: one rich sub-response, or several plain ones
NormReplies ==
    {Json(<<x>>) : x \in SubResponses}
    \cup {Json(r) : r \in SeqsUpTo(FewSubResponses, MaxResp)}

(***************************************************************************)
(* Operations.                                                             *)
(***************************************************************************)
NoCall == [status |-> "none", sent |-> FALSE]
NoClient == [status |-> "none"]

\* the caller, before it has constructed a client
Start(ctors, idArgs, replies) ==
    /\ ctor \in ctors
    /\ sensor_ids \in idArgs
    /\ reply \in replies
    /\ client = NoClient
    /\ session = "none"
    /\ scope = [pos |-> "outside"]
    /\ exc = "none"
    /\ call = NoCall
    /\ disposed = FALSE
    /\ sid = <<>>
    /\ valid = [called |-> FALSE]

\* the state right after KaiterraAPIClient(**ctor) returned
Constructed(ctors, idArgs, replies) ==
    /\ ctor \in ctors
    /\ sensor_ids \in idArgs
    /\ reply \in replies
    /\ client = init(ctor)
    /\ session = "open"
    /\ scope = [pos |-> "outside"]
    /\ exc = "none"
    /\ call = NoCall
    /\ disposed = FALSE
    /\ sid = <<>>
    /\ valid = [called |-> FALSE]

\* KaiterraAPIClient(...): __init__
Construct ==
    /\ client.status = "none"
    /\ client' = init(ctor)
    /\ session' = IF init(ctor).status = "constructed" THEN "open" ELSE session
    /\ exc' = IF init(ctor).status = "constructed" THEN "none" ELSE init(ctor).exc
    /\ UNCHANGED <<ctor, scope, sensor_ids, reply, call, disposed, sid, valid>>

\* 'with client:' is entered: __enter__
Enter ==
    /\ client.status = "constructed"
    /\ scope.pos = "outside"
    /\ scope' = [pos |-> "inside"]
    /\ exc' = "none"
    /\ UNCHANGED <<ctor, client, session, sensor_ids, reply, call, disposed, sid, valid>>

\* a close() that leaves the session as it is
close_nothing(s) == s

\* self._session.close()
close(s) == "closed"

\* the 'with' block is left, its body having raised bodyExc or nothing ("none"):
\* __exit__ calls close() and returns None, so the exception goes on to the caller
Leave ==
    \E bodyExc \in {"none", "BodyError"} :
        /\ scope.pos = "inside"
        /\ scope' = [pos |-> "left", raised |-> bodyExc]
        /\ session' = close(session)
        /\ disposed' = TRUE
        /\ exc' = bodyExc
        /\ UNCHANGED <<ctor, client, sensor_ids, reply, call, sid, valid>>

\* client.close()
Close ==
    /\ client.status = "constructed"
    /\ session' = close(session)
    /\ disposed' = TRUE
    /\ exc' = "none"
    /\ UNCHANGED <<ctor, client, scope, sensor_ids, reply, call, sid, valid>>

\* client.get_latest_sensor_readings(sensor_ids), the server answering with reply
GetLatestSensorReadings ==
    /\ client.status = "constructed"
    /\ call' = get_latest_sensor_readings(client, sensor_ids, reply)
    /\ exc' = call'.exc
    /\ UNCHANGED <<ctor, client, session, scope, sensor_ids, reply, disposed, sid, valid>>

(***************************************************************************)
(* Specifications.                                                         *)
(***************************************************************************)
\* the life of a client: construction, calls, 'with' and close()
Init ==
    Start(AllCtorArgs,
          {List(<<LaserEggId, SensedgeId>>), List(<<MalformedId>>), Str(LaserEggId)},
          {Json(<<OkPm25, NotFound>>), Json(<<OkPm25>>), TransportError})

Next == Construct \/ Enter \/ Leave \/ Close \/ GetLatestSensorReadings

Spec == Init /\ [][Next]_vars

\* calls on a constructed client: every configuration, id list and reply
InitBatch ==
    \/ Constructed(GoodCtorArgs, IdArguments, BatchReplies)
    \/ Constructed({TestCtorArgs}, LongIdArguments, LongReplies)

NextBatch == GetLatestSensorReadings

SpecBatch == InitBatch /\ [][NextBatch]_vars

\* the normaliser: the unit tests' client, every reply
InitNorm == Constructed({TestCtorArgs}, {List(<<LaserEggId, SensedgeId>>)}, NormReplies)

NextNorm == GetLatestSensorReadings

SpecNorm == InitNorm /\ [][NextNorm]_vars

\* the validator on its own
InitValid ==
    /\ sid \in ValidatorInputs
    /\ valid = [called |-> FALSE]
    /\ ctor = TestCtorArgs
    /\ client = init(ctor)
    /\ session = "open"
    /\ scope = [pos |-> "outside"]
    /\ exc = "none"
    /\ sensor_ids = List(<<>>)
    /\ reply = TransportError
    /\ call = NoCall
    /\ disposed = FALSE

\* client._is_valid_sensor_id(sid)
Validate ==
    /\ ~valid.called
    /\ valid' = [called |-> TRUE, ret |-> is_valid_sensor_id(sid)]
    /\ UNCHANGED <<ctor, client, session, scope, exc, sensor_ids, reply, call, disposed, sid>>

NextValid == Validate

SpecValid == InitValid /\ [][NextValid]_vars

(***************************************************************************)
(* Properties.                                                             *)
(***************************************************************************)
Called == call.status # "none"
Returned == call.status = "returned"
IsList == sensor_ids.type = "list"

\* C1: a call whose argument is a bare string, or a list with an id the
\* validator rejects at any position, fails with ValueError and issues no
\* HTTP request at all (no partial payload of the valid ids).
C1_InvalidInputRejectedBeforeRequest ==
    (/\ Called
     /\ \/ sensor_ids.type = "str"
        \/ \E i \in 1..Len(sensor_ids.v) : ~is_valid_sensor_id(sensor_ids.v[i]))
    => /\ call.status = "raised"
       /\ call.exc = "ValueError"
       /\ ~call.sent

\* a rejected list whose invalid id comes after a valid one
C1_Witness ==
    /\ call.status = "raised"
    /\ IsList
    /\ Len(sensor_ids.v) = 2
    /\ is_valid_sensor_id(sensor_ids.v[1])
    /\ ~is_valid_sensor_id(sensor_ids.v[2])

\* what the normaliser makes of one sub-response, as an element of the result
Element(x) ==
    LET p == parse_series_major_single_points(x)
    IN  IF p.kind = "None" THEN None ELSE Some(p.d)

\* C2: the list a successful call returns has one element per requested id, in
\* input order: its length is len(sensor_ids) and element i is the reading (or
\* None) of sub-response i, whatever array the HTTP executor returned.
C2_OneElementPerRequestedId ==
    Returned =>
        /\ Len(call.result) = Len(sensor_ids.v)
        /\ \A i \in 1..Len(sensor_ids.v) :
               /\ i <= Len(reply.json)
               /\ call.result[i] = Element(reply.json[i])


\* a sub-response that is no key/value record, or has a status outside [200, 400)
Failed(x) ==
    \/ ~x.mapping
    \/ /\ "code" \in DOMAIN x.d
       /\ x.d["code"] < 200 \/ x.d["code"] >= 400

\* C3: a sub-response that is not a key/value record, or whose status code is
\* outside [200, 400), yields None at its own position: it raises nothing
\* (whatever its body is, decodable or not), and the other positions, and the
\* call's failing or not, are what they would be had it been a success.
C3_FailedSubResponseIsNoneInPlace ==
    (call.sent /\ reply.kind = "json") =>
        \A i \in 1..Len(reply.json) :
            Failed(reply.json[i]) =>
                LET other == ParseAll([reply.json EXCEPT ![i] = OkPm25])
                IN  /\ ~parse_series_major_single_points(reply.json[i]).raised
                    /\ Returned =>
                           /\ Len(call.result) = Len(reply.json)
                           /\ call.result[i] = None
                           /\ ~other.raised
                           /\ \A j \in 1..Len(reply.json) :
                                  j # i => call.result[j] = other.v[j]
                    /\ call.status = "raised" =>
                           /\ other.raised
                           /\ other.exc = call.exc

\* a 404 with an undecodable body next to a sensor that has readings
C3_Witness ==
    /\ Returned
    /\ reply.kind = "json"
    /\ \E i, j \in 1..Len(reply.json) :
           /\ reply.json[i] = NotFound
           /\ call.result[i] = None
           /\ ~call.result[j].none

\* the query of a relative_url: what follows the id and the "?"
QueryOf(url, id) == SubSeq(url, Len(id) + 2, Len(url))

\* a query is key, "=", value triples separated by "&"
NParams(q) == (Len(q) + 1) \div 4
Key(q, k) == q[4 * (k - 1) + 1]
Val(q, k) == q[4 * (k - 1) + 3]
WellFormedQuery(q) ==
    /\ Len(q) % 4 = 3
    /\ \A k \in 1..NParams(q) :
           /\ q[4 * (k - 1) + 2] = "="
           /\ k < NParams(q) => q[4 * k] = "&"

RECURSIVE ValuesFrom(_, _, _)
\* the values of the parameters k.. of q whose key is key, in order
ValuesFrom(q, key, k) ==
    IF k > NParams(q) THEN <<>>
    ELSE (IF Key(q, k) = key THEN <<Val(q, k)>> ELSE <<>>) \o ValuesFrom(q, key, k + 1)

ValuesOfKey(q, key) == ValuesFrom(q, key, 1)

\* the units the caller supplied at construction
SuppliedUnits == IF ctor.preferred_units.none THEN <<>> ELSE ctor.preferred_units.v

\* C4: the payload POSTed to /v1/batch has one sub-request per id, in order:
\* method GET, a relative_url that is the id unchanged, then
\* '?format=series_major', 'aqi=' at most once, and one 'units=<code>' per
\* preferred unit in the order the units were given to the constructor.
C4_PayloadMirrorsIdsAndUnits ==
    call.sent =>
        /\ call.request.method = "POST"
        /\ call.request.url = client.base_url \o <<"/", "v1", "/", "batch">>
        /\ Len(call.request.json) = Len(sensor_ids.v)
        /\ \A i \in 1..Len(sensor_ids.v) :
               LET id == sensor_ids.v[i]
                   url == call.request.json[i].relative_url
                   q == QueryOf(url, id)
               IN  /\ call.request.json[i].method = "GET"
                   /\ Len(url) > Len(id)
                   /\ SubSeq(url, 1, Len(id)) = id
                   /\ url[Len(id) + 1] = "?"
                   /\ WellFormedQuery(q)
                   /\ Key(q, 1) = "format" /\ Val(q, 1) = "series_major"
                   /\ Len(ValuesOfKey(q, "aqi")) <= 1
                   /\ ValuesOfKey(q, "units") =
                          [j \in 1..Len(SuppliedUnits) |-> UnitsValue(SuppliedUnits[j])]

\* two ids sent for a client that prefers Fahrenheit, then Celsius
C4_Witness ==
    /\ call.sent
    /\ Len(call.request.json) = 2
    /\ sensor_ids.v[1] # sensor_ids.v[2]
    /\ SuppliedUnits = <<"DegreesFahrenheit", "DegreesCelsius">>

\* C5: with an AQI standard given to the constructor every relative_url has
\* '&aqi=<code>' exactly once, right after 'format=series_major' and before
\* any 'units='; without one, no 'aqi' key is present.
C5_AqiStandardIsRequested ==
    call.sent =>
        \A i \in 1..Len(call.request.json) :
            LET q == QueryOf(call.request.json[i].relative_url, sensor_ids.v[i])
            IN  IF ctor.aqi_standard.none
                THEN ValuesOfKey(q, "aqi") = <<>>
                ELSE /\ ValuesOfKey(q, "aqi") = <<ctor.aqi_standard.v>>
                     /\ NParams(q) >= 2
                     /\ Key(q, 2) = "aqi"

\* a sub-response with a status code in [200, 400)
InRange(x) ==
    /\ x.mapping
    /\ "code" \in DOMAIN x.d
    /\ x.d["code"] >= 200 /\ x.d["code"] < 400

\* the decoded body of sub-response i
BodyOf(i) == reply.json[i].d["body"].object

HasPoints(e) == Len(e.points) > 0

\* the names of the entries of a field that have at least one point
NamesWithPoints(field) ==
    {field[k].param : k \in {n \in 1..Len(field) : HasPoints(field[n])}}

\* rd is the reading of the raw entry e: its first point alone, the timestamp
\* parsed to a UTC instant, value and aqi as sent, the Units member of its
\* code, source exactly when e has one
IsReadingOf(rd, e) ==
    /\ DOMAIN rd = {"units", "points"} \cup ({"source"} \cap DOMAIN e)
    /\ "source" \in DOMAIN e => rd.source = e.source
    /\ rd.units \in Units
    /\ UnitsValue(rd.units) = e.units
    /\ Len(rd.points) = 1
    /\ LET pt == rd.points[1]
           raw == e.points[1]
       IN  /\ DOMAIN pt = DOMAIN raw
           /\ pt.value = raw.value
           /\ "aqi" \in DOMAIN raw => pt.aqi = raw.aqi
           /\ pt.ts.tzinfo = "utc"
           /\ pt.ts = parse_rfc3339(raw.ts).v

\* the last entry of field named name that has points
LastNamed(field, name) ==
    LET ks == {k \in 1..Len(field) : field[k].param = name /\ HasPoints(field[k])}
    IN  field[CHOOSE k \in ks : \A j \in ks : j <= k]

\* the positions of a returned call whose readings come from a field
Normalised ==
    {i \in 1..Len(reply.json) : InRange(reply.json[i]) /\ ~ChosenField(BodyOf(i)).none}

\* C6 (as stated): every entry of the chosen field is normalised on its own:
\* an entry without points is skipped, every other entry gives the reading
\* found under its parameter name.
C6_EveryEntryGivesItsReading ==
    Returned =>
        \A i \in Normalised :
            LET field == ChosenField(BodyOf(i)).v
                d == call.result[i]
            IN  /\ ~d.none
                /\ DOMAIN d.v = NamesWithPoints(field)
                /\ \A k \in 1..Len(field) :
                       HasPoints(field[k]) => IsReadingOf(d.v[field[k].param], field[k])

\* C6 (amended): an entry without points is skipped (a field of such entries
\* gives an empty mapping, not None); the mapping has one reading per parameter
\* name that has an entry with points, and it is the reading of the last such
\* entry: first point only, timestamp parsed to UTC, value unchanged, units the
\* Units member, source and aqi present exactly when sent.
C6_LastEntryOfANameGivesItsReading ==
    Returned =>
        \A i \in Normalised :
            LET field == ChosenField(BodyOf(i)).v
                d == call.result[i]
            IN  /\ ~d.none
                /\ DOMAIN d.v = NamesWithPoints(field)
                /\ \A name \in DOMAIN d.v : IsReadingOf(d.v[name], LastNamed(field, name))

\* two entries with points under one name, or an entry with two points and a
\* source next to one without points
C6_Witness ==
    /\ Returned
    /\ \E i \in Normalised :
           \/ /\ BodyOf(i)["latest"] = <<EntryPm25, EntryPm25Again>>
              /\ call.result[i].v["rpm25c"].units = "PartsPerMillion"
           \/ /\ BodyOf(i)["latest"] = <<EntryHumid, EntryNoPoints>>
              /\ DOMAIN call.result[i].v = {"rhumid"}

\* C7: _is_valid_sensor_id returns true exactly for the ids that, lower-cased
\* and without at most one leading '/', are a device type, a '/', and 32 hex
\* characters with hyphens absent or at canonical 8-4-4-4-12 positions only.
Hyphenated(h, hy) ==
    SubSeq(h, 1, 8) \o (IF 1 \in hy THEN <<"-">> ELSE <<>>)
    \o SubSeq(h, 9, 12) \o (IF 2 \in hy THEN <<"-">> ELSE <<>>)
    \o SubSeq(h, 13, 16) \o (IF 3 \in hy THEN <<"-">> ELSE <<>>)
    \o SubSeq(h, 17, 20) \o (IF 4 \in hy THEN <<"-">> ELSE <<>>)
    \o SubSeq(h, 21, 32)

IsCanonicalDeviceId(d) ==
    LET IsHex(c) == c \in HexDigits
        NotHyphen(c) == c # "-"
        h == SelectSeq(d, NotHyphen)
    IN  /\ Len(h) = 32
        /\ Len(SelectSeq(h, IsHex)) = 32
        /\ \E hy \in SUBSET (1..4) : d = Hyphenated(h, hy)

IsWellFormedId(id) ==
    LET s == Lower(id)
        t == IF s # <<>> /\ s[1] = "/" THEN Tail(s) ELSE s
    IN  \E w \in {laseregg, laseregg \o <<"s">>, sensedge, sensedge \o <<"s">>} :
            /\ Len(t) > Len(w) + 1
            /\ SubSeq(t, 1, Len(w)) = w
            /\ t[Len(w) + 1] = "/"
            /\ IsCanonicalDeviceId(SubSeq(t, Len(w) + 2, Len(t)))

C7_ValidatorAcceptsExactlyWellFormedIds ==
    valid.called => (valid.ret <=> IsWellFormedId(sid))

\* C8 (as stated): a list that is empty or longer than 100 makes the call fail
\* with ValueError, no HTTP request being issued.
C8_OnlyOneToHundredIdsAreSent ==
    (Called /\ IsList /\ (Len(sensor_ids.v) = 0 \/ Len(sensor_ids.v) > 100)) =>
        /\ call.status = "raised"
        /\ call.exc = "ValueError"
        /\ ~call.sent

\* C8 (amended): a list longer than 100, whatever its elements, makes the call
\* fail with ValueError, no HTTP request being issued; an empty list is not
\* rejected: an empty batch is sent.
C8_OnlyUpToHundredIdsAreSent ==
    (Called /\ IsList) =>
        /\ Len(sensor_ids.v) > 100 =>
               /\ call.status = "raised"
               /\ call.exc = "ValueError"
               /\ ~call.sent
        /\ Len(sensor_ids.v) = 0 =>
               /\ call.sent
               /\ call.request.json = <<>>

\* 101 valid ids, rejected
C8_Witness ==
    /\ call.status = "raised"
    /\ IsList
    /\ Len(sensor_ids.v) = 101
    /\ \A i \in 1..Len(sensor_ids.v) : is_valid_sensor_id(sensor_ids.v[i])

\* C9: the session is open from a successful construction until disposal; it
\* is closed after close() and after leaving a 'with' block, whether the body
\* raised or not, the body's exception reaching the caller; a construction
\* that fails leaves no session.
C9_SessionState ==
    /\ client.status # "constructed" => session = "none"
    /\ (client.status = "constructed" /\ ~disposed) => session = "open"
    /\ disposed => session = "closed"
    /\ scope.pos = "left" => session = "closed"

C9_LeavingStep ==
    (scope.pos = "inside" /\ scope'.pos = "left") =>
        /\ session' = "closed"
        /\ exc' = scope'.raised

C9_SessionReleasedOnEveryPath == []C9_SessionState /\ [][C9_LeavingStep]_vars

\* a 'with' block left by an exception: session closed, exception at the caller
C9_Witness ==
    /\ scope.pos = "left"
    /\ scope.raised = "BodyError"
    /\ exc = "BodyError"
    /\ session = "closed"

\* C10 (as stated): 'info.aqi' is used only when 'latest' is missing, the
\* element is None only when both fields are absent, and a field that is
\* present but empty gives an empty mapping.
C10_NoneOnlyWhenBothFieldsAbsent ==
    Returned =>
        \A i \in {n \in 1..Len(reply.json) : InRange(reply.json[n])} :
            LET b == BodyOf(i)
                d == call.result[i]
            IN  /\ d.none <=> ("latest" \notin DOMAIN b /\ "info.aqi" \notin DOMAIN b)
                /\ ("latest" \in DOMAIN b /\ b["latest"] = <<>>) => d = Some(EmptyDict)
                /\ "latest" \in DOMAIN b =>
                       (~d.none /\ DOMAIN d.v = NamesWithPoints(b["latest"]))

\* C10 (amended): 'latest' is used when it is present and not empty; otherwise
\* 'info.aqi' is, when it is present and not empty; otherwise, both being
\* absent or empty, the element is None.
C10_FallsBackWhenLatestMissingOrEmpty ==
    Returned =>
        \A i \in {n \in 1..Len(reply.json) : InRange(reply.json[n])} :
            LET b == BodyOf(i)
                d == call.result[i]
                Usable(f) == f \in DOMAIN b /\ b[f] # <<>>
            IN  /\ Usable("latest") =>
                       (~d.none /\ DOMAIN d.v = NamesWithPoints(b["latest"]))
                /\ (~Usable("latest") /\ Usable("info.aqi")) =>
                       (~d.none /\ DOMAIN d.v = NamesWithPoints(b["info.aqi"]))
                /\ (~Usable("latest") /\ ~Usable("info.aqi")) => d.none

\* 'latest': [] next to a non-empty 'info.aqi': the readings are info.aqi's
C10_Witness ==
    /\ Returned
    /\ \E i \in 1..Len(reply.json) :
           /\ InRange(reply.json[i])
           /\ "latest" \in DOMAIN BodyOf(i)
           /\ BodyOf(i)["latest"] = <<>>
           /\ ~call.result[i].none
           /\ DOMAIN call.result[i].v = {"aqi"}

\* a timestamp text in neither accepted format
BadTimestamp(ts) == ~MatchesSeconds(ts) /\ ~MatchesFraction(ts)

\* a units code outside the closed Units set
UnknownUnits(code) == \A n \in DOMAIN UnitsMembers : UnitsMembers[n].value # code

\* sub-response i is in range and the field its readings are taken from has an
\* entry with points whose first timestamp or whose units code cannot be parsed
HasBadEntry(i) ==
    /\ InRange(reply.json[i])
    /\ "body" \in DOMAIN reply.json[i].d
    /\ reply.json[i].d["body"].text = "json"
    /\ ~ChosenField(BodyOf(i)).none
    /\ \E k \in 1..Len(ChosenField(BodyOf(i)).v) :
           LET e == ChosenField(BodyOf(i)).v[k]
           IN  /\ HasPoints(e)
               /\ BadTimestamp(e.points[1].ts) \/ UnknownUnits(e.units)

\* C11: if a sub-response with a status code in [200, 400) has, in an entry
\* with at least one point of the field its readings are taken from, a first
\* timestamp in neither accepted format or a units code outside Units, the
\* whole call fails with ValueError and returns no result list, whatever the
\* other sub-responses are: the entry is neither dropped nor turned into None.
C11_BadEntryFailsTheWholeCall ==
    (call.sent /\ reply.kind = "json"
        /\ \E i \in 1..Len(reply.json) : HasBadEntry(i))
    => /\ call.status = "raised"
       /\ call.exc = "ValueError"
       /\ "result" \notin DOMAIN call

\* a well-formed sensor next to one whose timestamp lacks the 'Z': no result
C11_Witness ==
    /\ call.status = "raised"
    /\ call.exc = "ValueError"
    /\ reply.kind = "json"
    /\ Len(reply.json) = 2
    /\ reply.json[1] = OkPm25
    /\ HasBadEntry(2)

====
